---- MODULE Spec2Model ----
(***************************************************************************)
(* bevy_mundy: the bridge between the mundy preference stream and the      *)
(* Preferences resource.  A startup system opens the subscription, creates *)
(* an unbounded crossbeam channel and spawns a detached relay task         *)
(* (forward_stream_to_receiver); a PreUpdate system                        *)
(* (poll_system_preferences) performs one try_recv per tick and publishes  *)
(* the converted item into the Preferences resource.                       *)
(***************************************************************************)
EXTENDS Integers, Sequences, FiniteSets, TLC

VARIABLES
    started,            \* the Startup schedule has run subscribe_to_preferencs
    subscriptions,      \* number of mundy::Preferences::stream calls made
    interest,           \* the Interest of the subscription ("none" before it exists)
    channels,           \* number of crossbeam channels created
    tasks,              \* number of relay tasks spawned on the IoTaskPool
    emitted,            \* number of items the platform source has yielded so far
    streamEnded,        \* the platform source has ended its sequence
    stream,             \* items yielded by the source, not yet taken by the relay
    relay,              \* relay task position: not_spawned / awaiting / sending / done
    relayItem,          \* the item bound to `preferences` in the relay loop body
    chan,               \* the queue of the crossbeam channel
    receiverAlive,      \* the Receiver resource exists
    preferences_res,    \* the Preferences resource
    pollResult,         \* what the last poll step returned: none / Ok / Err
    pollKind,           \* the match arm the last poll step took: none / item / empty / closed
    publishedPos,       \* history: emission position of the item last published (0: none)
    received,           \* history: the items the poll steps have received, in order
    consumedAfterDrop,  \* history: items the relay took from the stream after the receiver was dropped
    lastStep,           \* history: the name of the last step taken
    emittedLog,         \* history: the items the platform source has yielded, in order
    convA,              \* conversion check: a raw snapshot handed to From
    convB,              \* conversion check: a second raw snapshot handed to From
    convOut             \* conversion check: <<>> or <<From(convA), From(convB)>>

vars == <<started, subscriptions, interest, channels, tasks, emitted, streamEnded,
          stream, relay, relayItem, chan, receiverAlive, preferences_res,
          pollResult, pollKind, publishedPos, received, consumedAfterDrop, lastStep,
          emittedLog, convA, convB, convOut>>

convVars == <<convA, convB, convOut>>

pluginVars == <<started, subscriptions, interest, channels, tasks, emitted, streamEnded,
                stream, relay, relayItem, chan, receiverAlive, preferences_res,
                pollResult, pollKind, publishedPos, received, consumedAfterDrop, lastStep,
                emittedLog>>

\* ---------------------------------------------------------------- bounds
\* Number of items the platform source yields in a run.
MaxEmit == 3
\* Number of raw snapshots (a prefix of RawSamples) the source chooses from.
NumSamples == 3

\* Number of distinct double-click intervals the conversion is checked on.
NumIntervals == 2

\* ---------------------------------------------------------------- data
\* Option<T>: None is <<>>, Some(v) is <<v>>.
None == <<>>
Some(v) == <<v>>

\* A raw accent colour channel is an f64, written here as a count of 1/64ths; an f32
\* holds only every fourth such value.
RawColorA == [red |-> 20, green |-> 32, blue |-> 44, alpha |-> 64]
RawColorB == [red |-> 21, green |-> 32, blue |-> 44, alpha |-> 64]
RawColorC == [red |-> 26, green |-> 8, blue |-> 0, alpha |-> 64]

\* mundy::Preferences values the platform source may yield.
RawSamples ==
    << [color_scheme |-> "mundy::ColorScheme::Dark",
        contrast |-> "mundy::Contrast::NoPreference",
        reduced_motion |-> "mundy::ReducedMotion::NoPreference",
        reduced_transparency |-> "mundy::ReducedTransparency::NoPreference",
        accent_color |-> None,
        double_click_interval |-> Some(500)],
       [color_scheme |-> "mundy::ColorScheme::Light",
        contrast |-> "mundy::Contrast::More",
        reduced_motion |-> "mundy::ReducedMotion::Reduce",
        reduced_transparency |-> "mundy::ReducedTransparency::Reduce",
        accent_color |-> Some(RawColorA),
        double_click_interval |-> None],
       [color_scheme |-> "mundy::ColorScheme::NoPreference",
        contrast |-> "mundy::Contrast::NoPreference",
        reduced_motion |-> "mundy::ReducedMotion::NoPreference",
        reduced_transparency |-> "mundy::ReducedTransparency::NoPreference",
        accent_color |-> None,
        double_click_interval |-> None],
       [color_scheme |-> "mundy::ColorScheme::Light",
        contrast |-> "mundy::Contrast::More",
        reduced_motion |-> "mundy::ReducedMotion::Reduce",
        reduced_transparency |-> "mundy::ReducedTransparency::Reduce",
        accent_color |-> Some(RawColorB),
        double_click_interval |-> None],
       [color_scheme |-> "mundy::ColorScheme::Dark",
        contrast |-> "mundy::Contrast::Custom",
        reduced_motion |-> "mundy::ReducedMotion::NoPreference",
        reduced_transparency |-> "mundy::ReducedTransparency::Reduce",
        accent_color |-> Some(RawColorC),
        double_click_interval |-> Some(400)],
       [color_scheme |-> "mundy::ColorScheme::Light",
        contrast |-> "mundy::Contrast::Less",
        reduced_motion |-> "mundy::ReducedMotion::Reduce",
        reduced_transparency |-> "mundy::ReducedTransparency::NoPreference",
        accent_color |-> None,
        double_click_interval |-> Some(500)] >>

\* Every value of each field of mundy::Preferences (the accent colours and the
\* double-click intervals are a few representatives).
ColorSchemes ==
    {"mundy::ColorScheme::NoPreference", "mundy::ColorScheme::Light", "mundy::ColorScheme::Dark"}

Contrasts ==
    {"mundy::Contrast::NoPreference", "mundy::Contrast::More", "mundy::Contrast::Less",
     "mundy::Contrast::Custom"}

ReducedMotions == {"mundy::ReducedMotion::NoPreference", "mundy::ReducedMotion::Reduce"}

ReducedTransparencies ==
    {"mundy::ReducedTransparency::NoPreference", "mundy::ReducedTransparency::Reduce"}

AccentColors == {None, Some(RawColorA), Some(RawColorB), Some(RawColorC)}

\* Durations in milliseconds: 500, 400, ...
DoubleClickIntervals == {None} \cup {Some(600 - 100 * k) : k \in 1..NumIntervals}

RawAll ==
    [color_scheme : ColorSchemes,
     contrast : Contrasts,
     reduced_motion : ReducedMotions,
     reduced_transparency : ReducedTransparencies,
     accent_color : AccentColors,
     double_click_interval : DoubleClickIntervals]

Min(a, b) == IF a < b THEN a ELSE b

Raw == {RawSamples[i] : i \in 1..Min(NumSamples, Len(RawSamples))}

\* ---------------------------------------------------------------- conversions
From_ColorScheme_Swapped(value) ==
    CASE value = "mundy::ColorScheme::NoPreference" -> "ColorScheme::NoPreference"
      [] value = "mundy::ColorScheme::Light" -> "ColorScheme::Dark"
      [] value = "mundy::ColorScheme::Dark" -> "ColorScheme::Light"

From_ColorScheme(value) ==
    CASE value = "mundy::ColorScheme::NoPreference" -> "ColorScheme::NoPreference"
      [] value = "mundy::ColorScheme::Light" -> "ColorScheme::Light"
      [] value = "mundy::ColorScheme::Dark" -> "ColorScheme::Dark"

From_Contrast_Collapsed(value) ==
    CASE value = "mundy::Contrast::NoPreference" -> "Contrast::NoPreference"
      [] value = "mundy::Contrast::More" -> "Contrast::More"
      [] value = "mundy::Contrast::Less" -> "Contrast::Less"
      [] value = "mundy::Contrast::Custom" -> "Contrast::More"

From_Contrast(value) ==
    CASE value = "mundy::Contrast::NoPreference" -> "Contrast::NoPreference"
      [] value = "mundy::Contrast::More" -> "Contrast::More"
      [] value = "mundy::Contrast::Less" -> "Contrast::Less"
      [] value = "mundy::Contrast::Custom" -> "Contrast::Custom"

From_ReducedMotion(value) ==
    CASE value = "mundy::ReducedMotion::NoPreference" -> "ReducedMotion::NoPreference"
      [] value = "mundy::ReducedMotion::Reduce" -> "ReducedMotion::Reduce"

From_ReducedTransparency(value) ==
    CASE value = "mundy::ReducedTransparency::NoPreference" -> "ReducedTransparency::NoPreference"
      [] value = "mundy::ReducedTransparency::Reduce" -> "ReducedTransparency::Reduce"

\* `c as f32`: round an f64 (in 1/64ths) to the nearest f32 (a multiple of 4/64),
\* ties to even.
as_f32(c) ==
    LET q == c \div 4
        r == c % 4
    IN  IF r < 2 THEN 4 * q
        ELSE IF r > 2 THEN 4 * (q + 1)
        ELSE IF q % 2 = 0 THEN 4 * q ELSE 4 * (q + 1)

\* Option::map over the colour: Srgba::from_f32_array(..).into() gives Color::Srgba.
From_AccentColor(value) ==
    IF value = None THEN None
    ELSE Some([variant |-> "Color::Srgba",
               red |-> as_f32(value[1].red),
               green |-> as_f32(value[1].green),
               blue |-> as_f32(value[1].blue),
               alpha |-> as_f32(value[1].alpha)])

\* Self(value.0)
From_DoubleClickInterval(value) == value

From(value) ==
    [color_scheme |-> From_ColorScheme(value.color_scheme),
     contrast |-> From_Contrast(value.contrast),
     reduced_motion |-> From_ReducedMotion(value.reduced_motion),
     reduced_transparency |-> From_ReducedTransparency(value.reduced_transparency),
     accent_color |-> From_AccentColor(value.accent_color),
     double_click_interval |-> From_DoubleClickInterval(value.double_click_interval)]

Default_LightScheme ==
    [color_scheme |-> "ColorScheme::Light",
     contrast |-> "Contrast::NoPreference",
     reduced_motion |-> "ReducedMotion::NoPreference",
     reduced_transparency |-> "ReducedTransparency::NoPreference",
     accent_color |-> None,
     double_click_interval |-> None]

\* #[derive(Default)] with the #[default] variants
Default ==
    [color_scheme |-> "ColorScheme::NoPreference",
     contrast |-> "Contrast::NoPreference",
     reduced_motion |-> "ReducedMotion::NoPreference",
     reduced_transparency |-> "ReducedTransparency::NoPreference",
     accent_color |-> None,
     double_click_interval |-> None]

\* ---------------------------------------------------------------- channel
\* The sender lives inside the relay task's future: it exists from the spawn until
\* the future completes.
SenderAlive == relay \in {"awaiting", "sending"}

send_Duplicate(ch, rxAlive, msg) ==
    IF rxAlive THEN [ok |-> TRUE, ch |-> Append(Append(ch, msg), msg)]
    ELSE [ok |-> FALSE, ch |-> ch]

\* crossbeam Sender::send on an unbounded channel: Err iff the receiver is gone.
send(ch, rxAlive, msg) ==
    IF rxAlive THEN [ok |-> TRUE, ch |-> Append(ch, msg)]
    ELSE [ok |-> FALSE, ch |-> ch]

try_recv_Newest(ch, txAlive) ==
    IF ch # <<>> THEN [kind |-> "Ok", msg |-> <<ch[Len(ch)]>>, ch |-> SubSeq(ch, 1, Len(ch) - 1)]
    ELSE IF txAlive THEN [kind |-> "Empty", msg |-> <<>>, ch |-> ch]
    ELSE [kind |-> "Disconnected", msg |-> <<>>, ch |-> ch]

try_recv_DisconnectFirst(ch, txAlive) ==
    IF ~txAlive THEN [kind |-> "Disconnected", msg |-> <<>>, ch |-> ch]
    ELSE IF ch # <<>> THEN [kind |-> "Ok", msg |-> <<Head(ch)>>, ch |-> Tail(ch)]
    ELSE [kind |-> "Empty", msg |-> <<>>, ch |-> ch]

\* crossbeam Receiver::try_recv: the oldest message if there is one; otherwise Empty
\* while a sender exists and Disconnected once every sender is gone.
try_recv(ch, txAlive) ==
    IF ch # <<>> THEN [kind |-> "Ok", msg |-> <<Head(ch)>>, ch |-> Tail(ch)]
    ELSE IF txAlive THEN [kind |-> "Empty", msg |-> <<>>, ch |-> ch]
    ELSE [kind |-> "Disconnected", msg |-> <<>>, ch |-> ch]

\* ---------------------------------------------------------------- poll step
poll_ResetOnEmpty(ch, txAlive, res) ==
    LET r == try_recv(ch, txAlive)
    IN  CASE r.kind = "Ok" ->
               [ret |-> "Ok", kind |-> "item", res |-> From(r.msg[1].raw), ch |-> r.ch, msg |-> r.msg]
          [] r.kind = "Empty" ->
               [ret |-> "Ok", kind |-> "empty", res |-> Default, ch |-> r.ch, msg |-> <<>>]
          [] r.kind = "Disconnected" ->
               [ret |-> "Err", kind |-> "closed", res |-> res, ch |-> r.ch, msg |-> <<>>]

poll_SwallowClosed(ch, txAlive, res) ==
    LET r == try_recv(ch, txAlive)
    IN  CASE r.kind = "Ok" ->
               [ret |-> "Ok", kind |-> "item", res |-> From(r.msg[1].raw), ch |-> r.ch, msg |-> r.msg]
          [] r.kind = "Empty" ->
               [ret |-> "Ok", kind |-> "empty", res |-> res, ch |-> r.ch, msg |-> <<>>]
          [] r.kind = "Disconnected" ->
               [ret |-> "Ok", kind |-> "closed", res |-> res, ch |-> r.ch, msg |-> <<>>]

poll_FieldMerge(ch, txAlive, res) ==
    LET r == try_recv(ch, txAlive)
        new == From(r.msg[1].raw)
        merged ==
            [color_scheme |-> IF new.color_scheme = "ColorScheme::NoPreference"
                              THEN res.color_scheme ELSE new.color_scheme,
             contrast |-> IF new.contrast = "Contrast::NoPreference"
                          THEN res.contrast ELSE new.contrast,
             reduced_motion |-> IF new.reduced_motion = "ReducedMotion::NoPreference"
                                THEN res.reduced_motion ELSE new.reduced_motion,
             reduced_transparency |->
                 IF new.reduced_transparency = "ReducedTransparency::NoPreference"
                 THEN res.reduced_transparency ELSE new.reduced_transparency,
             accent_color |-> IF new.accent_color = None
                              THEN res.accent_color ELSE new.accent_color,
             double_click_interval |-> IF new.double_click_interval = None
                                       THEN res.double_click_interval
                                       ELSE new.double_click_interval]
    IN  CASE r.kind = "Ok" ->
               [ret |-> "Ok", kind |-> "item", res |-> merged, ch |-> r.ch, msg |-> r.msg]
          [] r.kind = "Empty" ->
               [ret |-> "Ok", kind |-> "empty", res |-> res, ch |-> r.ch, msg |-> <<>>]
          [] r.kind = "Disconnected" ->
               [ret |-> "Err", kind |-> "closed", res |-> res, ch |-> r.ch, msg |-> <<>>]

poll_ResetOnClosed(ch, txAlive, res) ==
    LET r == try_recv(ch, txAlive)
    IN  CASE r.kind = "Ok" ->
               [ret |-> "Ok", kind |-> "item", res |-> From(r.msg[1].raw), ch |-> r.ch, msg |-> r.msg]
          [] r.kind = "Empty" ->
               [ret |-> "Ok", kind |-> "empty", res |-> res, ch |-> r.ch, msg |-> <<>>]
          [] r.kind = "Disconnected" ->
               [ret |-> "Err", kind |-> "closed", res |-> Default, ch |-> r.ch, msg |-> <<>>]

\* The body of poll_system_preferences: ONE try_recv; Ok(item) is converted and
\* stored, Empty returns Ok(()), any other error is returned.  ret is the returned
\* Result, kind the match arm taken, res the resource, ch the queue afterwards and
\* msg the received item (if any).
poll_system_preferences(ch, txAlive, res) ==
    LET r == try_recv(ch, txAlive)
    IN  CASE r.kind = "Ok" ->
               [ret |-> "Ok", kind |-> "item", res |-> From(r.msg[1].raw), ch |-> r.ch, msg |-> r.msg]
          [] r.kind = "Empty" ->
               [ret |-> "Ok", kind |-> "empty", res |-> res, ch |-> r.ch, msg |-> <<>>]
          [] r.kind = "Disconnected" ->
               [ret |-> "Err", kind |-> "closed", res |-> res, ch |-> r.ch, msg |-> <<>>]

PollFrame_Resubscribe ==
    /\ subscriptions' = subscriptions + 1
    /\ channels' = channels + 1
    /\ tasks' = tasks + 1
    /\ UNCHANGED <<started, interest, emitted, streamEnded, stream, relay,
                   relayItem, receiverAlive, consumedAfterDrop>>

\* What the poll system cannot touch: its parameters are the Receiver and the
\* Preferences resource only.
PollFrame ==
    UNCHANGED <<started, subscriptions, interest, channels, tasks, emitted, streamEnded,
                stream, relay, relayItem, receiverAlive, consumedAfterDrop>>

\* ---------------------------------------------------------------- initial state
\* MundyPlugin::build: init_resource::<Preferences>() and the two systems registered;
\* nothing has run yet.
PluginInit ==
    /\ started = FALSE
    /\ subscriptions = 0
    /\ interest = "none"
    /\ channels = 0
    /\ tasks = 0
    /\ emitted = 0
    /\ streamEnded = FALSE
    /\ stream = <<>>
    /\ relay = "not_spawned"
    /\ relayItem = <<>>
    /\ chan = <<>>
    /\ receiverAlive = FALSE
    /\ preferences_res = Default
    /\ pollResult = "none"
    /\ pollKind = "none"
    /\ publishedPos = 0
    /\ received = <<>>
    /\ consumedAfterDrop = 0
    /\ lastStep = "init"
    /\ emittedLog = <<>>

Init ==
    /\ PluginInit
    /\ convA = RawSamples[1]
    /\ convB = RawSamples[1]
    /\ convOut = <<>>

\* ---------------------------------------------------------------- actions
\* subscribe_to_preferencs, run once by the Startup schedule.
Startup ==
    /\ ~started
    /\ started' = TRUE
    /\ channels' = channels + 1
    /\ chan' = <<>>
    /\ subscriptions' = subscriptions + 1
    /\ interest' = "All"
    /\ tasks' = tasks + 1
    /\ relay' = "awaiting"
    /\ receiverAlive' = TRUE
    /\ lastStep' = "startup"
    /\ UNCHANGED <<emittedLog, convVars>>
    /\ UNCHANGED <<emitted, streamEnded, stream, relayItem, preferences_res, pollResult,
                   pollKind, publishedPos, received, consumedAfterDrop>>

\* The platform source yields one more raw snapshot on the subscription.
SourceEmit ==
    /\ subscriptions > 0
    /\ ~streamEnded
    /\ relay # "done"
    /\ emitted < MaxEmit
    /\ \E raw \in Raw :
          stream' = Append(stream, [pos |-> emitted + 1, raw |-> raw])
    /\ emitted' = emitted + 1
    /\ lastStep' = "source_emit"
    /\ emittedLog' = Append(emittedLog, [pos |-> emitted + 1, raw |-> stream'[Len(stream')].raw])
    /\ UNCHANGED convVars
    /\ UNCHANGED <<started, subscriptions, interest, channels, tasks, streamEnded, relay,
                   relayItem, chan, receiverAlive, preferences_res, pollResult, pollKind,
                   publishedPos, received, consumedAfterDrop>>

\* The platform source ends its sequence.
SourceEnd ==
    /\ subscriptions > 0
    /\ ~streamEnded
    /\ streamEnded' = TRUE
    /\ lastStep' = "source_end"
    /\ UNCHANGED <<emittedLog, convVars>>
    /\ UNCHANGED <<started, subscriptions, interest, channels, tasks, emitted, stream, relay,
                   relayItem, chan, receiverAlive, preferences_res, pollResult, pollKind,
                   publishedPos, received, consumedAfterDrop>>

\* stream.next().await resumes with Some(preferences).
RelayNext ==
    /\ relay = "awaiting"
    /\ stream # <<>>
    /\ relayItem' = <<Head(stream)>>
    /\ stream' = Tail(stream)
    /\ relay' = "sending"
    /\ consumedAfterDrop' = IF receiverAlive THEN consumedAfterDrop ELSE consumedAfterDrop + 1
    /\ lastStep' = "relay_next"
    /\ UNCHANGED <<emittedLog, convVars>>
    /\ UNCHANGED <<started, subscriptions, interest, channels, tasks, emitted, streamEnded,
                   chan, receiverAlive, preferences_res, pollResult, pollKind, publishedPos,
                   received>>

RelayEnd_Early ==
    /\ relay = "awaiting"
    /\ streamEnded
    /\ relay' = "done"
    /\ lastStep' = "relay_end"
    /\ UNCHANGED <<emittedLog, convVars>>
    /\ UNCHANGED <<started, subscriptions, interest, channels, tasks, emitted, streamEnded,
                   stream, relayItem, chan, receiverAlive, preferences_res, pollResult,
                   pollKind, publishedPos, received, consumedAfterDrop>>

\* stream.next().await resumes with None: the loop and the task end, the sender is dropped.
RelayEnd ==
    /\ relay = "awaiting"
    /\ stream = <<>>
    /\ streamEnded
    /\ relay' = "done"
    /\ lastStep' = "relay_end"
    /\ UNCHANGED <<emittedLog, convVars>>
    /\ UNCHANGED <<started, subscriptions, interest, channels, tasks, emitted, streamEnded,
                   stream, relayItem, chan, receiverAlive, preferences_res, pollResult,
                   pollKind, publishedPos, received, consumedAfterDrop>>

RelaySend_Publishes ==
    /\ relay = "sending"
    /\ chan' = send(chan, receiverAlive, relayItem[1]).ch
    /\ preferences_res' = From(relayItem[1].raw)
    /\ relayItem' = <<>>
    /\ relay' = "awaiting"
    /\ lastStep' = "relay_send"
    /\ UNCHANGED <<emittedLog, convVars>>
    /\ UNCHANGED <<started, subscriptions, interest, channels, tasks, emitted, streamEnded,
                   stream, receiverAlive, pollResult, pollKind, publishedPos,
                   received, consumedAfterDrop>>

\* `_ = sender.send(preferences);`: the result of the send is discarded and the loop
\* goes back to stream.next().await whether the send succeeded or not.
RelaySend ==
    /\ relay = "sending"
    /\ chan' = send(chan, receiverAlive, relayItem[1]).ch
    /\ relayItem' = <<>>
    /\ relay' = "awaiting"
    /\ lastStep' = "relay_send"
    /\ UNCHANGED <<emittedLog, convVars>>
    /\ UNCHANGED <<started, subscriptions, interest, channels, tasks, emitted, streamEnded,
                   stream, receiverAlive, preferences_res, pollResult, pollKind, publishedPos,
                   received, consumedAfterDrop>>

Poll_BlockingRecv ==
    /\ started
    /\ receiverAlive
    /\ (chan # <<>> \/ ~SenderAlive)
    /\ LET p == poll_system_preferences(chan, SenderAlive, preferences_res)
       IN  /\ chan' = p.ch
           /\ preferences_res' = p.res
           /\ pollResult' = p.ret
           /\ pollKind' = p.kind
           /\ received' = received \o p.msg
           /\ publishedPos' = IF p.msg # <<>> THEN p.msg[1].pos ELSE publishedPos
    /\ lastStep' = "poll"
    /\ UNCHANGED <<emittedLog, convVars>>
    /\ PollFrame

\* One run of the PreUpdate system poll_system_preferences (one tick).
Poll ==
    /\ started
    /\ receiverAlive
    /\ LET p == poll_system_preferences(chan, SenderAlive, preferences_res)
       IN  /\ chan' = p.ch
           /\ preferences_res' = p.res
           /\ pollResult' = p.ret
           /\ pollKind' = p.kind
           /\ received' = received \o p.msg
           /\ publishedPos' = IF p.msg # <<>> THEN p.msg[1].pos ELSE publishedPos
    /\ lastStep' = "poll"
    /\ UNCHANGED <<emittedLog, convVars>>
    /\ PollFrame

\* The host drops the Receiver resource (the App is destroyed): the channel is
\* disconnected on the receiving side and its queued messages are discarded.
DropReceiver ==
    /\ receiverAlive
    /\ receiverAlive' = FALSE
    /\ chan' = <<>>
    /\ lastStep' = "drop_receiver"
    /\ UNCHANGED <<emittedLog, convVars>>
    /\ UNCHANGED <<started, subscriptions, interest, channels, tasks, emitted, streamEnded,
                   stream, relay, relayItem, preferences_res, pollResult, pollKind,
                   publishedPos, received, consumedAfterDrop>>

Next ==
    \/ Startup
    \/ SourceEmit
    \/ SourceEnd
    \/ RelayNext
    \/ RelayEnd
    \/ RelaySend
    \/ Poll
    \/ DropReceiver

Spec == Init /\ [][Next]_vars

\* The same system with the scheduling the host provides: the Startup schedule runs,
\* the IoTaskPool runs the relay task whenever it can make a step, and the main loop
\* keeps running the PreUpdate schedule.  The platform source and the drop of the
\* Receiver are under no obligation to happen.
FairSpec ==
    /\ Init
    /\ [][Next]_vars
    /\ WF_vars(Startup)
    /\ WF_vars(RelayNext)
    /\ WF_vars(RelaySend)
    /\ WF_vars(RelayEnd)
    /\ WF_vars(Poll)

\* ---------------------------------------------------------------- conversion alone
\* Preferences::from applied to two arbitrary raw snapshots; the plugin does not run.
ConvInit ==
    /\ PluginInit
    /\ convA \in RawAll
    /\ convB \in RawAll
    /\ convOut = <<>>

Convert ==
    /\ convOut = <<>>
    /\ convOut' = <<From(convA), From(convB)>>
    /\ UNCHANGED <<pluginVars, convA, convB>>

ConvNext == Convert

ConvSpec == ConvInit /\ [][ConvNext]_vars

\* ---------------------------------------------------------------- claims

\* C1 (as stated): a poll step that starts with a non-empty channel leaves the
\* Preferences resource equal to the conversion of the LAST queued item.
C1_LastWriteWins ==
    [][(lastStep' = "poll" /\ chan # <<>>)
          => preferences_res' = From(chan[Len(chan)].raw)]_vars

\* C2: a poll step that runs while the channel is empty and the sender is alive
\* returns Ok and leaves the Preferences resource as it was.
C2_NoUpdateWithoutData ==
    [][(lastStep' = "poll" /\ chan = <<>> /\ SenderAlive)
          => (pollResult' = "Ok" /\ preferences_res' = preferences_res)]_vars

C2_Witness ==
    /\ lastStep = "poll"
    /\ pollKind = "empty"
    /\ pollResult = "Ok"
    /\ received # <<>>
    /\ preferences_res # Default

\* C3: the emission position of the published item never decreases; and a poll step
\* that finds exactly the one item emitted since the previous poll publishes that item
\* (A after the first poll, B after the second).
C3_OrderPreserved ==
    [][/\ publishedPos' >= publishedPos
       /\ (lastStep' = "poll" /\ Len(chan) = 1)
             => (publishedPos' = chan[1].pos /\ preferences_res' = From(chan[1].raw))]_vars

C3_Witness ==
    /\ lastStep = "poll"
    /\ publishedPos = 2
    /\ Len(received) = 2
    /\ received[1].pos = 1
    /\ received[2].pos = 2
    /\ From(received[1].raw) # From(received[2].raw)
    /\ preferences_res = From(received[2].raw)

C5_RelayShutdown ==
    [][/\ (lastStep' = "relay_send" /\ ~receiverAlive) => relay' = "done"
       /\ consumedAfterDrop' <= 1]_vars

\* C6: a poll step that finds exactly one item X in the channel returns Ok and
\* publishes the field-by-field conversion of X: the colour scheme and the
\* double-click interval are carried over, NoPreference/None fields stay at their
\* defaults.
C6_EndToEnd ==
    [][(lastStep' = "poll" /\ Len(chan) = 1)
          => LET X == chan[1].raw
                 P == preferences_res'
             IN  /\ pollResult' = "Ok"
                 /\ P = From(X)
                 /\ X.color_scheme = "mundy::ColorScheme::Dark"
                       => P.color_scheme = "ColorScheme::Dark"
                 /\ X.color_scheme = "mundy::ColorScheme::Light"
                       => P.color_scheme = "ColorScheme::Light"
                 /\ X.color_scheme = "mundy::ColorScheme::NoPreference"
                       => P.color_scheme = "ColorScheme::NoPreference"
                 /\ P.double_click_interval = X.double_click_interval
                 /\ X.contrast = "mundy::Contrast::NoPreference"
                       => P.contrast = "Contrast::NoPreference"
                 /\ X.reduced_motion = "mundy::ReducedMotion::NoPreference"
                       => P.reduced_motion = "ReducedMotion::NoPreference"
                 /\ X.reduced_transparency = "mundy::ReducedTransparency::NoPreference"
                       => P.reduced_transparency = "ReducedTransparency::NoPreference"
                 /\ X.accent_color = None => P.accent_color = None]_vars

C6_Witness ==
    /\ lastStep = "poll"
    /\ pollKind = "item"
    /\ pollResult = "Ok"
    /\ chan = <<>>
    /\ Len(received) = 1
    /\ received[1].raw.color_scheme = "mundy::ColorScheme::Dark"
    /\ received[1].raw.double_click_interval = Some(500)
    /\ preferences_res.color_scheme = "ColorScheme::Dark"
    /\ preferences_res.double_click_interval = Some(500)
    /\ preferences_res.contrast = "Contrast::NoPreference"
    /\ preferences_res.accent_color = None

\* C7: at most one subscription, channel and relay task ever exist; the subscription
\* is opened by the startup step with Interest::All; no poll step opens a
\* subscription, spawns a task or creates a channel.
C7_OneSubscription ==
    /\ [](/\ subscriptions <= 1 /\ channels <= 1 /\ tasks <= 1
          /\ (subscriptions = 1) = started
          /\ subscriptions = 1 => interest = "All")
    /\ [][/\ lastStep' = "poll" => UNCHANGED <<subscriptions, channels, tasks, interest>>
          /\ subscriptions' # subscriptions => lastStep' = "startup"]_vars

C7_Witness ==
    /\ subscriptions = 1
    /\ channels = 1
    /\ tasks = 1
    /\ interest = "All"
    /\ lastStep = "poll"
    /\ pollKind = "closed"
    /\ Len(received) >= 2

\* C8: as long as no poll step has received an item, the Preferences resource is the
\* all-default value, whatever the relay has enqueued and however many empty polls ran.
C8_DefaultBeforeFirstChange ==
    received = <<>>
       => /\ preferences_res.color_scheme = "ColorScheme::NoPreference"
          /\ preferences_res.contrast = "Contrast::NoPreference"
          /\ preferences_res.reduced_motion = "ReducedMotion::NoPreference"
          /\ preferences_res.reduced_transparency = "ReducedTransparency::NoPreference"
          /\ preferences_res.accent_color = None
          /\ preferences_res.double_click_interval = None

C8_Witness ==
    /\ received = <<>>
    /\ pollKind = "empty"
    /\ Len(chan) >= 2
    /\ From(chan[1].raw) # Default
    /\ preferences_res = Default

\* C9: only a poll step changes the Preferences resource; the startup step and every
\* step of the relay task and of the source leave it unchanged.
C9_SingleWriter ==
    [][preferences_res' # preferences_res => lastStep' = "poll"]_vars

C9_Witness ==
    /\ lastStep = "relay_send"
    /\ Len(received) = 1
    /\ preferences_res = From(received[1].raw)
    /\ chan # <<>>
    /\ From(chan[Len(chan)].raw) # preferences_res

\* C10 (as stated): a poll step that returns Ok leaves the channel empty.
C10_FullDrain ==
    [][(lastStep' = "poll" /\ pollResult' = "Ok") => chan' = <<>>]_vars

\* C11: in every reachable state the Preferences resource is the all-default value
\* or the conversion of exactly one raw snapshot the platform source has emitted;
\* it is never a mixture of the fields of two emitted snapshots.
C11_AtomicPublication ==
    \/ preferences_res = Default
    \/ \E i \in 1..Len(emittedLog) : preferences_res = From(emittedLog[i].raw)

C11_Witness ==
    /\ lastStep = "poll"
    /\ Len(received) >= 2
    /\ preferences_res = From(received[Len(received)].raw)
    /\ preferences_res # From(received[1].raw)
    /\ From(received[1].raw) # Default
    /\ preferences_res # Default

\* C12: while the receiver is alive, the items received so far, then the items queued
\* in the channel, then the item the relay holds, then the items the relay has not
\* taken yet are exactly the emitted sequence: the relay forwards every item once and
\* in order, so received-then-queued is a prefix of what the source emitted.
C12_FifoRelay ==
    receiverAlive
       => /\ received \o chan \o relayItem \o stream = emittedLog
          /\ LET d == received \o chan
             IN  /\ Len(d) <= Len(emittedLog)
                 /\ d = SubSeq(emittedLog, 1, Len(d))

C12_Witness ==
    /\ receiverAlive
    /\ Len(received) >= 1
    /\ Len(chan) >= 1
    /\ Len(emittedLog) = 3
    /\ Len(received) + Len(chan) = 2
    /\ relayItem # <<>>

\* C13: the poll step never blocks: whenever the system can run (startup done, the
\* Receiver resource present) the step can complete at once, whatever the channel
\* holds and wherever the relay task and the source are; it never has to wait for
\* a step of the relay or of the source.
C13_PollNeverBlocks ==
    (started /\ receiverAlive) => ENABLED Poll

C13_Witness ==
    /\ lastStep = "poll"
    /\ pollKind = "empty"
    /\ pollResult = "Ok"
    /\ relay = "sending"
    /\ chan = <<>>
    /\ ~streamEnded

\* C14: when the platform source ends its sequence the relay task exits, and only
\* after every yielded item has been taken and its send attempted; once it has exited
\* it stays exited, sends nothing further, and the sender stays dropped; no
\* subscription, task or channel is opened after the source has ended.
C14_SourceExhaustion ==
    /\ [](relay = "done" => (streamEnded /\ stream = <<>> /\ relayItem = <<>> /\ ~SenderAlive))
    /\ [][relay = "done" => (relay' = "done" /\ Len(chan') <= Len(chan))]_vars
    /\ [][streamEnded
            => (subscriptions' = subscriptions /\ tasks' = tasks /\ channels' = channels)]_vars
    /\ (streamEnded ~> (relay = "done"))

C14_Witness ==
    /\ relay = "done"
    /\ streamEnded
    /\ Len(emittedLog) >= 2
    /\ receiverAlive
    /\ received \o chan = emittedLog
    /\ chan # <<>>
    /\ subscriptions = 1

\* C16: if the receiver stays alive (and the relay and the main loop keep being
\* scheduled), then once the source has gone quiet the Preferences resource
\* eventually equals the conversion of the last item the source emitted and stays so.
C16_EventualConvergence ==
    (<>[]receiverAlive)
       => <>[](emittedLog # <<>>
                 => preferences_res = From(emittedLog[Len(emittedLog)].raw))

C16_Witness ==
    /\ receiverAlive
    /\ Len(emittedLog) >= 2
    /\ Len(received) = Len(emittedLog)
    /\ chan = <<>>
    /\ lastStep = "poll"
    /\ preferences_res = From(emittedLog[Len(emittedLog)].raw)
    /\ preferences_res # From(emittedLog[1].raw)

\* C17: a poll step never returns the closed-channel error while the channel holds
\* items: as long as an item is queued, also after the sender was dropped, the step
\* returns Ok, receives the oldest queued item and publishes its conversion; the
\* error is returned only when the channel is empty and the sender is gone.
C17_NoItemLostAtClosure ==
    [][lastStep' = "poll"
          => /\ pollResult' = "Err" => (chan = <<>> /\ ~SenderAlive)
             /\ chan # <<>> => /\ pollResult' = "Ok"
                               /\ received' = Append(received, Head(chan))
                               /\ chan' = Tail(chan)
                               /\ preferences_res' = From(Head(chan).raw)]_vars

C17_Witness ==
    /\ lastStep = "poll"
    /\ relay = "done"
    /\ pollKind = "item"
    /\ pollResult = "Ok"
    /\ received = emittedLog
    /\ Len(received) >= 2
    /\ preferences_res = From(received[Len(received)].raw)

\* C18: a poll step that returns the closed-channel error leaves the Preferences
\* resource unchanged; and once a poll step has returned the error, every later
\* poll step returns it again and the resource never changes.
C18_ClosureAbsorbing ==
    /\ [][(lastStep' = "poll" /\ pollResult' = "Err")
             => preferences_res' = preferences_res]_vars
    /\ [][pollResult = "Err"
             => (pollResult' = "Err" /\ preferences_res' = preferences_res
                 /\ ~SenderAlive' /\ chan' = <<>>)]_vars

C18_Witness ==
    /\ pollResult = "Err"
    /\ pollKind = "closed"
    /\ Len(received) >= 2
    /\ preferences_res = From(received[Len(received)].raw)
    /\ preferences_res # Default
    /\ lastStep = "drop_receiver"

\* C15: the conversion is total and maps every enum field to the same-named variant,
\* an absent accent colour or double-click interval to None, a present accent colour
\* to a present one, and carries a present double-click interval over unchanged;
\* equal raw snapshots convert to equal values, and raw snapshots that differ in an
\* enum field or in the double-click interval convert to different values.
C15_ConversionOneToOne ==
    convOut # <<>>
       => LET X == convA
              Y == convB
              P == convOut[1]
              Q == convOut[2]
          IN  /\ X.color_scheme = "mundy::ColorScheme::NoPreference"
                    => P.color_scheme = "ColorScheme::NoPreference"
              /\ X.color_scheme = "mundy::ColorScheme::Light"
                    => P.color_scheme = "ColorScheme::Light"
              /\ X.color_scheme = "mundy::ColorScheme::Dark"
                    => P.color_scheme = "ColorScheme::Dark"
              /\ X.contrast = "mundy::Contrast::NoPreference"
                    => P.contrast = "Contrast::NoPreference"
              /\ X.contrast = "mundy::Contrast::More" => P.contrast = "Contrast::More"
              /\ X.contrast = "mundy::Contrast::Less" => P.contrast = "Contrast::Less"
              /\ X.contrast = "mundy::Contrast::Custom" => P.contrast = "Contrast::Custom"
              /\ X.reduced_motion = "mundy::ReducedMotion::NoPreference"
                    => P.reduced_motion = "ReducedMotion::NoPreference"
              /\ X.reduced_motion = "mundy::ReducedMotion::Reduce"
                    => P.reduced_motion = "ReducedMotion::Reduce"
              /\ X.reduced_transparency = "mundy::ReducedTransparency::NoPreference"
                    => P.reduced_transparency = "ReducedTransparency::NoPreference"
              /\ X.reduced_transparency = "mundy::ReducedTransparency::Reduce"
                    => P.reduced_transparency = "ReducedTransparency::Reduce"
              /\ (X.accent_color = None) = (P.accent_color = None)
              /\ P.double_click_interval = X.double_click_interval
              /\ X = Y => P = Q
              /\ (\/ X.color_scheme # Y.color_scheme
                  \/ X.contrast # Y.contrast
                  \/ X.reduced_motion # Y.reduced_motion
                  \/ X.reduced_transparency # Y.reduced_transparency
                  \/ X.double_click_interval # Y.double_click_interval)
                    => P # Q

C15_Witness ==
    /\ convOut # <<>>
    /\ convA.contrast = "mundy::Contrast::Custom"
    /\ convB.contrast = "mundy::Contrast::More"
    /\ convA.color_scheme = convB.color_scheme
    /\ convA.reduced_motion = convB.reduced_motion
    /\ convA.reduced_transparency = convB.reduced_transparency
    /\ convA.accent_color = Some(RawColorA)
    /\ convB.accent_color = Some(RawColorB)
    /\ convA.double_click_interval = Some(500)
    /\ convB.double_click_interval = Some(500)
    /\ convOut[1].accent_color = convOut[2].accent_color
    /\ convOut[1] # convOut[2]
====
